---- MODULE Spec2Model ----
(***************************************************************************)
(* The D-Bus SASL handshake of zbus (src/zbus/src/handshake.rs): the       *)
(* client state machine, the server state machine and the blocking driver  *)
(* built on top of them, connected by two FIFO byte channels.              *)
(*                                                                         *)
(* Bytes are integers 0..255, a Vec<u8> or a String is a sequence of       *)
(* bytes.  Option<T> is a sequence of at most one element.                 *)
(*                                                                         *)
(* advance_handshake talks to a peer that runs concurrently, so one call   *)
(* is a chain of steps, each being one statement of the loop body: one     *)
(* sendmsg of flush_buffer, one recvmsg of read_command, the parse of a    *)
(* complete line, the step change after a flush, the return.  While a call *)
(* is in progress (ret = "running") the machine can do nothing but its     *)
(* next statement.                                                         *)
(***************************************************************************)
EXTENDS Integers, Sequences, FiniteSets, TLC

----------------------------------------------------------------------------
(* Bounds of the model *)

\* capacity in bytes of each direction of the socket pair
ChanCap ==
    20

\* number of would-block results a socket may return although it is ready
MaxWouldBlock ==
    1

\* number of lines the scripted peer of SpecServer writes
MaxPeerLines ==
    3

\* the uid codec is applied to 0..MaxCodecUid and to the uids around the
\* decimal length changes and the u32 limit
MaxCodecUid ==
    120

----------------------------------------------------------------------------
(* Program constants *)

\* let mut buf = [0; 40]
RecvBufSize ==
    40

\* a u32 (nix Uid, client_uid: u32) is the pair <<hi, lo>> of its two 16-bit
\* halves: the model checker's integers end below 2^32
Limb ==
    65536

\* textual length of a Guid
GuidLen ==
    32

----------------------------------------------------------------------------
(* Protocol literals *)

\* "\r\n"
CRLF ==
    <<13, 10>>

\* "\0AUTH EXTERNAL "
AUTH_EXTERNAL_PREFIX ==
    <<0, 65, 85, 84, 72, 32, 69, 88, 84, 69, 82, 78, 65, 76, 32>>

\* "NEGOTIATE_UNIX_FD\r\n"
NEGOTIATE_UNIX_FD_LINE ==
    <<78, 69, 71, 79, 84, 73, 65, 84, 69, 95, 85, 78, 73, 88, 95, 70, 68, 13, 10>>

\* "BEGIN\r\n"
BEGIN_LINE ==
    <<66, 69, 71, 73, 78, 13, 10>>

\* "OK "
OK_PREFIX ==
    <<79, 75, 32>>

\* "REJECTED EXTERNAL\r\n"
REJECTED_LINE ==
    <<82, 69, 74, 69, 67, 84, 69, 68, 32, 69, 88, 84, 69, 82, 78, 65, 76, 13, 10>>

\* "ERROR Unsupported command\r\n"
UNSUPPORTED_LINE ==
    <<69, 82, 82, 79, 82, 32, 85, 110, 115, 117, 112, 112, 111, 114, 116, 101,
      100, 32, 99, 111, 109, 109, 97, 110, 100, 13, 10>>

\* "AGREE_UNIX_FD\r\n"
AGREE_LINE ==
    <<65, 71, 82, 69, 69, 95, 85, 78, 73, 88, 95, 70, 68, 13, 10>>

\* "OK"
W_OK ==
    <<79, 75>>

\* "AUTH"
W_AUTH ==
    <<65, 85, 84, 72>>

\* "EXTERNAL"
W_EXTERNAL ==
    <<69, 88, 84, 69, 82, 78, 65, 76>>

\* "ERROR"
W_ERROR ==
    <<69, 82, 82, 79, 82>>

\* "BEGIN"
W_BEGIN ==
    <<66, 69, 71, 73, 78>>

\* "CANCEL"
W_CANCEL ==
    <<67, 65, 78, 67, 69, 76>>

\* "NEGOTIATE_UNIX_FD"
W_NEGOTIATE_UNIX_FD ==
    <<78, 69, 71, 79, 84, 73, 65, 84, 69, 95, 85, 78, 73, 88, 95, 70, 68>>

\* "AGREE_UNIX_FD"
W_AGREE_UNIX_FD ==
    <<65, 71, 82, 69, 69, 95, 85, 78, 73, 88, 95, 70, 68>>

----------------------------------------------------------------------------
(* Vec<u8> and slice operations *)

Min(a, b) ==
    IF a < b THEN a ELSE b

\* F applied to the value of x, which is computed once
With(x, F(_)) ==
    CHOOSE y \in {F(v) : v \in {x}} : TRUE

Take(s, n) ==
    SubSeq(s, 1, n)

Drop(s, n) ==
    SubSeq(s, n + 1, Len(s))

IsPrefix(p, s) ==
    /\ Len(p) <= Len(s)
    /\ Take(s, Len(p)) = p

\* slice::starts_with
StartsWith(s, p) ==
    IsPrefix(p, s)

\* slice::ends_with
EndsWith(s, q) ==
    /\ Len(q) <= Len(s)
    /\ Drop(s, Len(s) - Len(q)) = q

\* the concatenation of a sequence of byte strings
RECURSIVE Flatten(_)
Flatten(ss) ==
    IF ss = <<>> THEN <<>> ELSE Head(ss) \o Flatten(Tail(ss))

\* a mutant of Drain: the bytes just written stay at the front of the buffer
DrainKeepsFront(buffer, written) ==
    IF written > 1 THEN Drop(buffer, written - 1) ELSE buffer

\* self.buffer.drain(..written)
Drain(buffer, written) ==
    Drop(buffer, written)

\* a mutant of Extend: a resumed read starts the line again
ExtendRestarts(buffer, data) ==
    data

\* self.buffer.extend(&buf[..read])
Extend(buffer, data) ==
    buffer \o data

----------------------------------------------------------------------------
(* Text: read_line, split_whitespace, formatting *)

\* char::is_whitespace on the one-byte code points
IsWhitespace(b) ==
    b \in {9, 10, 11, 12, 13, 32}

\* the index of the first line feed of s from i on, Len(s) when there is none
RECURSIVE LineEnd(_, _)
LineEnd(s, i) ==
    IF i >= Len(s) THEN Len(s)
    ELSE IF s[i] = 10 THEN i
    ELSE LineEnd(s, i + 1)

\* std::str::from_utf8 succeeds on s from index i on
RECURSIVE Utf8From(_, _)
Utf8From(s, i) ==
    LET Cont(j) == j <= Len(s) /\ s[j] >= 128 /\ s[j] <= 191
    IN  IF i > Len(s) THEN TRUE
        ELSE IF s[i] < 128 THEN Utf8From(s, i + 1)
        ELSE IF s[i] >= 194 /\ s[i] <= 223
             THEN Cont(i + 1) /\ Utf8From(s, i + 2)
        ELSE IF s[i] >= 224 /\ s[i] <= 239
             THEN /\ Cont(i + 1) /\ Cont(i + 2)
                  /\ (s[i] = 224 => s[i + 1] >= 160)
                  /\ (s[i] = 237 => s[i + 1] <= 159)
                  /\ Utf8From(s, i + 3)
        ELSE IF s[i] >= 240 /\ s[i] <= 244
             THEN /\ Cont(i + 1) /\ Cont(i + 2) /\ Cont(i + 3)
                  /\ (s[i] = 240 => s[i + 1] >= 144)
                  /\ (s[i] = 244 => s[i + 1] <= 143)
                  /\ Utf8From(s, i + 4)
        ELSE FALSE

IsUtf8(s) ==
    Utf8From(s, 1)

\* (&self.buffer[..]).read_line(&mut reply): the bytes up to and including
\* the first line feed (all of them when there is none); Err(InvalidData)
\* when they are not UTF-8
ReadLine(buffer) ==
    With(Take(buffer, LineEnd(buffer, 1)),
         LAMBDA line : [ok |-> IsUtf8(line), reply |-> line])

\* reply.split_whitespace(), collected: the maximal runs of non-whitespace
RECURSIVE SplitFrom(_, _, _)
SplitFrom(s, i, cur) ==
    IF i > Len(s)
    THEN IF cur = <<>> THEN <<>> ELSE <<cur>>
    ELSE IF IsWhitespace(s[i])
         THEN (IF cur = <<>> THEN <<>> ELSE <<cur>>) \o SplitFrom(s, i + 1, <<>>)
         ELSE SplitFrom(s, i + 1, Append(cur, s[i]))

SplitWhitespace(reply) ==
    SplitFrom(reply, 1, <<>>)

\* one lower-case hexadecimal digit
HexDigit(d) ==
    IF d < 10 THEN 48 + d ELSE 87 + d

\* format!("{:x}", n)
RECURSIVE LowerHex(_)
LowerHex(n) ==
    IF n < 16 THEN <<HexDigit(n)>>
    ELSE LowerHex(n \div 16) \o <<HexDigit(n % 16)>>

\* the u32 of a number below 2^31
U32(n) ==
    <<n \div Limb, n % Limb>>

\* u / 10 and u % 10 of a u32
DivMod10(u) ==
    LET t == (u[1] % 10) * Limb + u[2]
    IN  [q |-> <<u[1] \div 10, t \div 10>>, r |-> t % 10]

\* Uid::to_string: the decimal string of a u32
RECURSIVE UidToString(_)
UidToString(u) ==
    IF u[1] = 0 /\ u[2] < 10 THEN <<48 + u[2]>>
    ELSE With(DivMod10(u), LAMBDA d : UidToString(d.q) \o <<48 + d.r>>)

\* a mutant of EncodeUid: the decimal string is sent as it is
EncodeUidPlain(uid) ==
    UidToString(uid)

\* Uid::current().to_string().chars().map(|c| format!("{:x}", c as u32))
\*     .collect::<String>()
EncodeUid(uid) ==
    With(UidToString(uid),
         LAMBDA chars : Flatten([i \in 1..Len(chars) |-> LowerHex(chars[i])]))

\* format!("\0AUTH EXTERNAL {}\r\n", uid_str)
AuthLine(uid) ==
    AUTH_EXTERNAL_PREFIX \o EncodeUid(uid) \o CRLF

----------------------------------------------------------------------------
(* crate::connection::id_from_str and crate::guid::Guid *)

\* the value of one hexadecimal digit, -1 for any other byte
HexVal(b) ==
    IF b >= 48 /\ b <= 57 THEN b - 48
    ELSE IF b >= 97 /\ b <= 102 THEN b - 87
    ELSE IF b >= 65 /\ b <= 70 THEN b - 55
    ELSE -1

\* one more decimal digit d after the u32 p.id: Err (ok = FALSE) when the
\* value does not fit
PushDigit(p, d) ==
    LET l == p.id[2] * 10 + (d - 48)
        h == p.id[1] * 10 + (l \div Limb)
    IN  IF ~p.ok \/ h >= Limb THEN [ok |-> FALSE, id |-> <<0, 0>>]
        ELSE [ok |-> TRUE, id |-> <<h, l % Limb>>]

\* str::parse::<u32> on a string of decimal digits
RECURSIVE ParseU32(_)
ParseU32(s) ==
    IF s = <<>> THEN [ok |-> TRUE, id |-> <<0, 0>>]
    ELSE With(ParseU32(Take(s, Len(s) - 1)),
              LAMBDA p : PushDigit(p, s[Len(s)]))

\* the characters a string of hex digit pairs stands for
HexPairs(s) ==
    [i \in 1..(Len(s) \div 2) |-> 16 * HexVal(s[2 * i - 1]) + HexVal(s[2 * i])]

\* id_from_str(s): every pair of hex digits is the code of one character of
\* the decimal string of the id; Err for anything that is not such a string
\* of a u32
IdFromStr(s) ==
    IF /\ Len(s) > 0
       /\ Len(s) % 2 = 0
       /\ \A i \in 1..Len(s) : HexVal(s[i]) >= 0
    THEN With(HexPairs(s),
              LAMBDA chars :
                 IF \A i \in 1..Len(chars) : chars[i] >= 48 /\ chars[i] <= 57
                 THEN ParseU32(chars)
                 ELSE [ok |-> FALSE, id |-> <<0, 0>>])
    ELSE [ok |-> FALSE, id |-> <<0, 0>>]

\* Guid::try_from(&str): the text of a guid is GuidLen hexadecimal digits
GuidTryFrom(word) ==
    LET valid == /\ Len(word) = GuidLen
                 /\ \A i \in 1..Len(word) : HexVal(word[i]) >= 0
    IN  [ok |-> valid, guid |-> word]

\* format!("{}", guid)
GuidToString(guid) ==
    guid

\* format!("OK {}\r\n", self.server_guid)
OkLine(guid) ==
    OK_PREFIX \o GuidToString(guid) \o CRLF

----------------------------------------------------------------------------
(* Values the environment supplies *)

\* "0123456789abcdef0123456789abcdef"
GuidA ==
    <<48, 49, 50, 51, 52, 53, 54, 55, 56, 57, 97, 98, 99, 100, 101, 102,
      48, 49, 50, 51, 52, 53, 54, 55, 56, 57, 97, 98, 99, 100, 101, 102>>

\* "fedcba9876543210fedcba9876543210"
GuidB ==
    <<102, 101, 100, 99, 98, 97, 57, 56, 55, 54, 53, 52, 51, 50, 49, 48,
      102, 101, 100, 99, 98, 97, 57, 56, 55, 54, 53, 52, 51, 50, 49, 48>>

\* the guids a server is constructed with
Guids ==
    {GuidA, GuidB}

\* Uid::current() of the client process
ClientUids ==
    {U32(1000)}

\* the uids a server is told to expect
ServerUids ==
    {U32(1000), U32(7)}

\* Option<T>
None ==
    <<>>

Some(x) ==
    <<x>>

----------------------------------------------------------------------------
(* State *)

VARIABLES
    \* ClientHandshake
    c_socket, c_buffer, c_step, c_server_guid, c_cap_unix_fd,
    \* ServerHandshake
    s_socket, s_buffer, s_step, s_server_guid, s_cap_unix_fd, s_client_uid,
    \* Uid::current() of the client process
    c_uid,
    \* the call of advance_handshake: "new" before the first call, "running"
    \* while a call is in progress, else what the last call returned;
    \* "consumed" once the value has been moved into its result
    c_ret, s_ret,
    \* what try_finish or blocking_finish returned last
    c_out, s_out,
    \* the PollFlags blocking_finish is waiting on in wait_on, "none" otherwise
    c_poll, s_poll,
    \* the two directions of the socket pair: bytes written and not yet read
    c2s, s2c,
    \* a socket that is blocked answers every sendmsg and recvmsg with
    \* WouldBlock; wb is the number of times a ready socket may still do so
    c_blocked, s_blocked, wb,
    \* TRUE when every sendmsg and recvmsg transfers as many bytes as it can
    whole,
    \* history: the outbound lines composed, the bytes the socket accepted,
    \* the bytes taken from the socket, the inbound buffers consumed by a parse
    c_lines, c_sent, c_rcvd, c_parsed,
    s_lines, s_sent, s_rcvd, s_parsed,
    \* the scripted peer of SpecServer: the lines it may still write
    p_left,
    \* the uid codec applied on its own: uid, phase, encoded text, decoded id
    x_uid, x_pc, x_enc, x_dec

cfields ==
    <<c_socket, c_buffer, c_step, c_server_guid, c_cap_unix_fd>>

sfields ==
    <<s_socket, s_buffer, s_step, s_server_guid, s_cap_unix_fd, s_client_uid>>

chist ==
    <<c_lines, c_sent, c_rcvd, c_parsed>>

shist ==
    <<s_lines, s_sent, s_rcvd, s_parsed>>

cvars ==
    <<cfields, c_uid, c_ret, c_out, c_poll, chist>>

svars ==
    <<sfields, s_ret, s_out, s_poll, shist>>

chans ==
    <<c2s, s2c>>

gates ==
    <<c_blocked, s_blocked, wb, whole>>

xvars ==
    <<x_uid, x_pc, x_enc, x_dec>>

vars ==
    <<cvars, svars, chans, gates, p_left, xvars>>

ClientSending ==
    {"SendingOauth", "SendingNegociateFd", "SendingBegin"}

ClientWaiting ==
    {"WaitOauth", "WaitNegociateFd"}

ServerSending ==
    {"SendingAuthOK", "SendingAuthError", "SendingBeginMessage"}

ServerWaiting ==
    {"WaitingForAuth", "WaitingForBegin"}

\* the value x_dec holds before the server has read the line
NotDecoded ==
    [uid |-> [ok |-> FALSE, id |-> <<0, 0>>], err |-> "none", step |-> "none"]

\* the value nothing has been returned yet
NoOut ==
    [tag |-> "none", val |-> <<>>]

\* ClientHandshake::new(socket)
ClientNew ==
    /\ c_socket = "client_fd"
    /\ c_buffer = <<>>
    /\ c_step = "Init"
    /\ c_server_guid = None
    /\ c_cap_unix_fd = FALSE

\* ServerHandshake::new(socket, guid, client_uid)
\* a mutant of ServerNew: the server starts with the fd-passing flag set
ServerNewCapSet(guid, client_uid) ==
    /\ s_socket = "server_fd"
    /\ s_buffer = <<>>
    /\ s_step = "WaitingForNull"
    /\ s_server_guid = guid
    /\ s_cap_unix_fd = TRUE
    /\ s_client_uid = client_uid

ServerNew(guid, client_uid) ==
    /\ s_socket = "server_fd"
    /\ s_buffer = <<>>
    /\ s_step = "WaitingForNull"
    /\ s_server_guid = guid
    /\ s_cap_unix_fd = FALSE
    /\ s_client_uid = client_uid

\* nothing has been sent, received or returned; the codec is not in use
Fresh ==
    /\ c_ret = "new" /\ s_ret = "new"
    /\ c_out = NoOut /\ s_out = NoOut
    /\ c_poll = "none" /\ s_poll = "none"
    /\ c2s = <<>> /\ s2c = <<>>
    /\ c_lines = <<>> /\ c_sent = <<>> /\ c_rcvd = <<>> /\ c_parsed = <<>>
    /\ s_lines = <<>> /\ s_sent = <<>> /\ s_rcvd = <<>> /\ s_parsed = <<>>
    /\ x_uid = <<0, 0>> /\ x_pc = "off" /\ x_enc = <<>>
    /\ x_dec = NotDecoded

\* a fresh client and a fresh server on the two ends of a socket pair
Init ==
    /\ ClientNew
    /\ \E guid \in Guids, uid \in ServerUids : ServerNew(guid, uid)
    /\ c_uid \in ClientUids
    /\ Fresh
    /\ c_blocked = FALSE /\ s_blocked = FALSE
    /\ wb = MaxWouldBlock
    /\ whole = FALSE
    /\ p_left = 0

----------------------------------------------------------------------------
(* The socket pair *)

\* the bytes one sendmsg may accept: at least one, at most what fits
SendSizes(buffer, chan) ==
    IF whole THEN {Min(Len(buffer), ChanCap - Len(chan))}
    ELSE 1..Min(Len(buffer), ChanCap - Len(chan))

\* the bytes one recvmsg into a buffer of size n may return
RecvSizes(n, chan) ==
    IF whole THEN {Min(n, Len(chan))}
    ELSE 1..Min(n, Len(chan))

\* sendmsg returns WouldBlock: the socket is blocked or its buffer is full ...
SendWouldBlock(blocked, chan) ==
    blocked \/ Len(chan) >= ChanCap

\* recvmsg returns WouldBlock: the socket is blocked or nothing has arrived ...
RecvWouldBlock(blocked, chan) ==
    blocked \/ chan = <<>>

\* ... or, wb times in a run, although the socket is ready
WouldBlockNow(natural) ==
    /\ natural \/ wb > 0
    /\ wb' = IF natural THEN wb ELSE wb - 1

\* a blocked socket becomes ready
Unblock ==
    /\ c_blocked \/ s_blocked
    /\ \E side \in {"c", "s"} :
          /\ IF side = "c" THEN c_blocked ELSE s_blocked
          /\ c_blocked' = IF side = "c" THEN FALSE ELSE c_blocked
          /\ s_blocked' = IF side = "s" THEN FALSE ELSE s_blocked
    /\ UNCHANGED <<cvars, svars, chans, wb, whole, p_left, xvars>>

----------------------------------------------------------------------------
(* ClientHandshake *)

\* a mutant of ClientAfterFlush: after NEGOTIATE_UNIX_FD is flushed the
\* client waits for the auth reply again
ClientAfterFlushBack(step) ==
    CASE step = "SendingOauth" -> "WaitOauth"
      [] step = "SendingNegociateFd" -> "WaitOauth"
      [] step = "SendingBegin" -> "Done"

\* the step a flush leads to
ClientAfterFlush(step) ==
    CASE step = "SendingOauth" -> "WaitOauth"
      [] step = "SendingNegociateFd" -> "WaitNegociateFd"
      [] step = "SendingBegin" -> "Done"

\* a mutant of WaitOauthWords: the guid of the OK reply is not kept
WaitOauthWordsNoGuid(words) ==
    IF Len(words) = 2 /\ words[1] = W_OK
    THEN IF GuidTryFrom(words[2]).ok
         THEN [err |-> "none", server_guid |-> None]
         ELSE [err |-> "InvalidGuid", server_guid |-> None]
    ELSE [err |-> "Handshake", server_guid |-> None]

\* a mutant of WaitOauthWords: the first word of the reply is not looked at
WaitOauthWordsAnyReply(words) ==
    IF Len(words) = 2
    THEN [err |-> "none", server_guid |-> Some(GuidA)]
    ELSE [err |-> "Handshake", server_guid |-> None]

\* WaitOauth: (Some("OK"), Some(guid), None) => guid.try_into()?, else the
\* Handshake error
WaitOauthWords(words) ==
    IF Len(words) = 2 /\ words[1] = W_OK
    THEN IF GuidTryFrom(words[2]).ok
         THEN [err |-> "none", server_guid |-> Some(GuidTryFrom(words[2]).guid)]
         ELSE [err |-> "InvalidGuid", server_guid |-> None]
    ELSE [err |-> "Handshake", server_guid |-> None]

\* WaitOauth: read_line, split_whitespace and the match on the words
WaitOauthMatch(buffer) ==
    With(ReadLine(buffer),
         LAMBDA r : IF ~r.ok THEN [err |-> "Io", server_guid |-> None]
                    ELSE With(SplitWhitespace(r.reply), WaitOauthWords))

\* a mutant of WaitNegociateFdMatch: AGREE_UNIX_FD leaves the flag false
WaitNegociateFdMatchForgets(buffer) ==
    IF StartsWith(buffer, W_AGREE_UNIX_FD)
    THEN [err |-> "none", cap_unix_fd |-> FALSE]
    ELSE IF StartsWith(buffer, W_ERROR)
         THEN [err |-> "none", cap_unix_fd |-> FALSE]
         ELSE [err |-> "Handshake", cap_unix_fd |-> FALSE]

\* WaitNegociateFd: the test of the start of the buffer
WaitNegociateFdMatch(buffer) ==
    IF StartsWith(buffer, W_AGREE_UNIX_FD)
    THEN [err |-> "none", cap_unix_fd |-> TRUE]
    ELSE IF StartsWith(buffer, W_ERROR)
         THEN [err |-> "none", cap_unix_fd |-> FALSE]
         ELSE [err |-> "Handshake", cap_unix_fd |-> FALSE]

\* Init: compose the AUTH line
CInit ==
    /\ c_ret = "running"
    /\ c_step = "Init"
    /\ c_buffer' = AuthLine(c_uid)
    /\ c_lines' = Append(c_lines, AuthLine(c_uid))
    /\ c_step' = "SendingOauth"
    /\ UNCHANGED <<c_socket, c_server_guid, c_cap_unix_fd, c_uid, c_ret, c_out,
                   c_poll, c_sent, c_rcvd, c_parsed>>
    /\ UNCHANGED <<svars, chans, gates, p_left, xvars>>

\* flush_buffer: one sendmsg that accepts written bytes
CSend ==
    /\ c_ret = "running"
    /\ c_step \in ClientSending
    /\ c_buffer # <<>>
    /\ ~SendWouldBlock(c_blocked, c2s)
    /\ \E written \in SendSizes(c_buffer, c2s) :
          /\ c2s' = c2s \o Take(c_buffer, written)
          /\ c_sent' = c_sent \o Take(c_buffer, written)
          /\ c_buffer' = Drain(c_buffer, written)
    /\ UNCHANGED <<c_socket, c_step, c_server_guid, c_cap_unix_fd, c_uid, c_ret,
                   c_out, c_poll, c_lines, c_rcvd, c_parsed>>
    /\ UNCHANGED <<svars, s2c, gates, p_left, xvars>>

\* flush_buffer: sendmsg returns WouldBlock, and so does advance_handshake
CSendWouldBlock ==
    /\ c_ret = "running"
    /\ c_step \in ClientSending
    /\ c_buffer # <<>>
    /\ WouldBlockNow(SendWouldBlock(c_blocked, c2s))
    /\ c_ret' = "WouldBlock"
    /\ UNCHANGED <<cfields, c_uid, c_out, c_poll, chist>>
    /\ UNCHANGED <<svars, chans, c_blocked, s_blocked, whole, p_left, xvars>>

\* the buffer is flushed: the Sending step is left
CFlushed ==
    /\ c_ret = "running"
    /\ c_step \in ClientSending
    /\ c_buffer = <<>>
    /\ c_step' = ClientAfterFlush(c_step)
    /\ UNCHANGED <<c_socket, c_buffer, c_server_guid, c_cap_unix_fd, c_uid, c_ret,
                   c_out, c_poll, chist>>
    /\ UNCHANGED <<svars, chans, gates, p_left, xvars>>

\* read_command: one recvmsg that returns read bytes
CRecv ==
    /\ c_ret = "running"
    /\ c_step \in ClientWaiting
    /\ ~EndsWith(c_buffer, CRLF)
    /\ ~RecvWouldBlock(c_blocked, s2c)
    /\ \E read \in RecvSizes(RecvBufSize, s2c) :
          /\ c_buffer' = Extend(c_buffer, Take(s2c, read))
          /\ c_rcvd' = c_rcvd \o Take(s2c, read)
          /\ s2c' = Drop(s2c, read)
    /\ UNCHANGED <<c_socket, c_step, c_server_guid, c_cap_unix_fd, c_uid, c_ret,
                   c_out, c_poll, c_lines, c_sent, c_parsed>>
    /\ UNCHANGED <<svars, c2s, gates, p_left, xvars>>

\* read_command: recvmsg returns WouldBlock, and so does advance_handshake
CRecvWouldBlock ==
    /\ c_ret = "running"
    /\ c_step \in ClientWaiting
    /\ ~EndsWith(c_buffer, CRLF)
    /\ WouldBlockNow(RecvWouldBlock(c_blocked, s2c))
    /\ c_ret' = "WouldBlock"
    /\ UNCHANGED <<cfields, c_uid, c_out, c_poll, chist>>
    /\ UNCHANGED <<svars, chans, c_blocked, s_blocked, whole, p_left, xvars>>

\* WaitOauth with a complete line in the buffer
CParseOauth ==
    /\ c_ret = "running"
    /\ c_step = "WaitOauth"
    /\ EndsWith(c_buffer, CRLF)
    /\ \E m \in {WaitOauthMatch(c_buffer)} :
           IF m.err # "none"
           THEN /\ c_ret' = m.err
                /\ UNCHANGED <<cfields, chist>>
           ELSE /\ c_server_guid' = m.server_guid
                /\ c_buffer' = NEGOTIATE_UNIX_FD_LINE
                /\ c_step' = "SendingNegociateFd"
                /\ c_lines' = Append(c_lines, NEGOTIATE_UNIX_FD_LINE)
                /\ c_parsed' = Append(c_parsed, c_buffer)
                /\ UNCHANGED <<c_socket, c_cap_unix_fd, c_ret, c_sent, c_rcvd>>
    /\ UNCHANGED <<c_uid, c_out, c_poll>>
    /\ UNCHANGED <<svars, chans, gates, p_left, xvars>>

\* WaitNegociateFd with a complete line in the buffer
CParseNegociateFd ==
    /\ c_ret = "running"
    /\ c_step = "WaitNegociateFd"
    /\ EndsWith(c_buffer, CRLF)
    /\ \E m \in {WaitNegociateFdMatch(c_buffer)} :
           IF m.err # "none"
           THEN /\ c_ret' = m.err
                /\ UNCHANGED <<cfields, chist>>
           ELSE /\ c_cap_unix_fd' = m.cap_unix_fd
                /\ c_buffer' = BEGIN_LINE
                /\ c_step' = "SendingBegin"
                /\ c_lines' = Append(c_lines, BEGIN_LINE)
                /\ c_parsed' = Append(c_parsed, c_buffer)
                /\ UNCHANGED <<c_socket, c_server_guid, c_ret, c_sent, c_rcvd>>
    /\ UNCHANGED <<c_uid, c_out, c_poll>>
    /\ UNCHANGED <<svars, chans, gates, p_left, xvars>>

\* Done => return Ok(())
CReturnOk ==
    /\ c_ret = "running"
    /\ c_step = "Done"
    /\ c_ret' = "Ok"
    /\ UNCHANGED <<cfields, c_uid, c_out, c_poll, chist>>
    /\ UNCHANGED <<svars, chans, gates, p_left, xvars>>

\* the statements of ClientHandshake::advance_handshake
ClientAdvance ==
    \/ CInit
    \/ CSend
    \/ CSendWouldBlock
    \/ CFlushed
    \/ CRecv
    \/ CRecvWouldBlock
    \/ CParseOauth
    \/ CParseNegociateFd
    \/ CReturnOk

\* a mutant of ClientTryFinish: the result is built in any step
ClientTryFinishAnyStep(socket, buffer, step, server_guid, cap_unix_fd) ==
    IF server_guid = None
    THEN [tag |-> "panic", val |-> <<>>]
    ELSE [tag |-> "Ok",
          val |-> [cx |-> socket, server_guid |-> server_guid[1],
                   cap_unix_fd |-> cap_unix_fd]]

\* ClientHandshake::try_finish(self)
ClientTryFinish(socket, buffer, step, server_guid, cap_unix_fd) ==
    IF step = "Done"
    THEN IF server_guid = None
         THEN [tag |-> "panic", val |-> <<>>]
         ELSE [tag |-> "Ok",
               val |-> [cx |-> socket, server_guid |-> server_guid[1],
                        cap_unix_fd |-> cap_unix_fd]]
    ELSE [tag |-> "Err",
          val |-> [socket |-> socket, buffer |-> buffer, step |-> step,
                   server_guid |-> server_guid, cap_unix_fd |-> cap_unix_fd]]

\* the caller calls advance_handshake (again)
CCall ==
    /\ c_ret \notin {"running", "consumed"}
    /\ c_ret' = "running"
    /\ c_out' = NoOut
    /\ UNCHANGED <<cfields, c_uid, c_poll, chist>>
    /\ UNCHANGED <<svars, chans, gates, p_left, xvars>>

\* the caller calls try_finish: Err(self) hands the value back as it is,
\* Ok consumes it
CTryFinish ==
    /\ c_ret \notin {"running", "consumed"}
    /\ c_out' = ClientTryFinish(c_socket, c_buffer, c_step, c_server_guid,
                                c_cap_unix_fd)
    /\ c_ret' = IF c_out'.tag = "Err" THEN c_ret ELSE "consumed"
    /\ UNCHANGED <<cfields, c_uid, c_poll, chist>>
    /\ UNCHANGED <<svars, chans, gates, p_left, xvars>>

----------------------------------------------------------------------------
(* ServerHandshake *)

\* a mutant of ServerAfterFlush: a flushed rejection leads on to
\* WaitingForBegin
ServerAfterFlushLenient(step) ==
    CASE step = "SendingAuthError" -> "WaitingForBegin"
      [] step = "SendingAuthOK" -> "WaitingForBegin"
      [] step = "SendingBeginMessage" -> "WaitingForBegin"

\* the step a flush leads to
ServerAfterFlush(step) ==
    CASE step = "SendingAuthError" -> "WaitingForAuth"
      [] step = "SendingAuthOK" -> "WaitingForBegin"
      [] step = "SendingBeginMessage" -> "WaitingForBegin"

\* a mutant of UidMatches: every decodable uid is accepted
UidMatchesAny(uid, client_uid) ==
    TRUE

\* uid == self.client_uid
UidMatches(uid, client_uid) ==
    uid = client_uid

\* a mutant of WaitingForAuthWords: the reply is appended to the buffer,
\* behind the line that was read
WaitingForAuthWordsAppends(words, buffer, client_uid, server_guid) ==
    LET n == Len(words)
        Fail(e) == [err |-> e, buffer |-> buffer, step |-> "WaitingForAuth"]
        Reply(line, step) ==
            [err |-> "none", buffer |-> buffer \o line, step |-> step]
    IN  IF n = 3 /\ words[1] = W_AUTH /\ words[2] = W_EXTERNAL
        THEN With(IdFromStr(words[3]),
                  LAMBDA uid :
                     IF ~uid.ok THEN Fail("Handshake")
                     ELSE IF UidMatches(uid.id, client_uid)
                          THEN Reply(OkLine(server_guid), "SendingAuthOK")
                          ELSE Reply(REJECTED_LINE, "SendingAuthError"))
        ELSE IF n >= 1 /\ (words[1] = W_AUTH \/ words[1] = W_ERROR)
             THEN Reply(REJECTED_LINE, "SendingAuthError")
        ELSE IF n = 1 /\ words[1] = W_BEGIN
             THEN Fail("Handshake")
        ELSE Reply(UNSUPPORTED_LINE, "SendingAuthError")

\* WaitingForAuth: the match on the first four words of the line.  err is
\* the error returned, or "none" with the reply composed and the next step
WaitingForAuthWords(words, buffer, client_uid, server_guid) ==
    LET n == Len(words)
        Fail(e) == [err |-> e, buffer |-> buffer, step |-> "WaitingForAuth"]
        Reply(line, step) == [err |-> "none", buffer |-> line, step |-> step]
    IN  IF n = 3 /\ words[1] = W_AUTH /\ words[2] = W_EXTERNAL
        THEN With(IdFromStr(words[3]),
                  LAMBDA uid :
                     IF ~uid.ok THEN Fail("Handshake")
                     ELSE IF UidMatches(uid.id, client_uid)
                          THEN Reply(OkLine(server_guid), "SendingAuthOK")
                          ELSE Reply(REJECTED_LINE, "SendingAuthError"))
        ELSE IF n >= 1 /\ (words[1] = W_AUTH \/ words[1] = W_ERROR)
             THEN Reply(REJECTED_LINE, "SendingAuthError")
        ELSE IF n = 1 /\ words[1] = W_BEGIN
             THEN Fail("Handshake")
        ELSE Reply(UNSUPPORTED_LINE, "SendingAuthError")

\* WaitingForAuth: read_line, split_whitespace and the match on the words
WaitingForAuthMatch(buffer, client_uid, server_guid) ==
    With(ReadLine(buffer),
         LAMBDA r :
            IF ~r.ok
            THEN [err |-> "Io", buffer |-> buffer, step |-> "WaitingForAuth"]
            ELSE With(SplitWhitespace(r.reply),
                      LAMBDA words :
                         WaitingForAuthWords(words, buffer, client_uid,
                                             server_guid)))

\* a mutant of WaitingForBeginWords: the reply to an unrecognized line leads
\* back to the authentication, as a rejection does
WaitingForBeginWordsDrops(words, buffer, cap_unix_fd) ==
    LET n == Len(words)
        Reply(line, step, cap) ==
            [err |-> "none", reply |-> TRUE, buffer |-> line, step |-> step,
             cap_unix_fd |-> cap]
    IN  IF n = 1 /\ words[1] = W_BEGIN
        THEN [err |-> "none", reply |-> FALSE, buffer |-> buffer,
              step |-> "Done", cap_unix_fd |-> cap_unix_fd]
        ELSE IF n = 1 /\ words[1] = W_CANCEL
             THEN Reply(REJECTED_LINE, "SendingAuthError", cap_unix_fd)
        ELSE IF n >= 1 /\ words[1] = W_ERROR
             THEN Reply(REJECTED_LINE, "SendingAuthError", cap_unix_fd)
        ELSE IF n = 1 /\ words[1] = W_NEGOTIATE_UNIX_FD
             THEN Reply(AGREE_LINE, "SendingBeginMessage", TRUE)
        ELSE Reply(UNSUPPORTED_LINE, "SendingAuthError", cap_unix_fd)

\* WaitingForBegin: the match on the first two words of the line.  reply
\* tells whether a reply line was composed into the buffer
WaitingForBeginWords(words, buffer, cap_unix_fd) ==
    LET n == Len(words)
        Reply(line, step, cap) ==
            [err |-> "none", reply |-> TRUE, buffer |-> line, step |-> step,
             cap_unix_fd |-> cap]
    IN  IF n = 1 /\ words[1] = W_BEGIN
        THEN [err |-> "none", reply |-> FALSE, buffer |-> buffer,
              step |-> "Done", cap_unix_fd |-> cap_unix_fd]
        ELSE IF n = 1 /\ words[1] = W_CANCEL
             THEN Reply(REJECTED_LINE, "SendingAuthError", cap_unix_fd)
        ELSE IF n >= 1 /\ words[1] = W_ERROR
             THEN Reply(REJECTED_LINE, "SendingAuthError", cap_unix_fd)
        ELSE IF n = 1 /\ words[1] = W_NEGOTIATE_UNIX_FD
             THEN Reply(AGREE_LINE, "SendingBeginMessage", TRUE)
        ELSE Reply(UNSUPPORTED_LINE, "SendingBeginMessage", cap_unix_fd)

\* WaitingForBegin: read_line, split_whitespace and the match on the words
WaitingForBeginMatch(buffer, cap_unix_fd) ==
    With(ReadLine(buffer),
         LAMBDA r :
            IF ~r.ok
            THEN [err |-> "Io", reply |-> FALSE, buffer |-> buffer,
                  step |-> "WaitingForBegin", cap_unix_fd |-> cap_unix_fd]
            ELSE With(SplitWhitespace(r.reply),
                      LAMBDA words :
                         WaitingForBeginWords(words, buffer, cap_unix_fd)))

\* a mutant of FirstByteOk: the first byte is not looked at
FirstByteAny(byte) ==
    TRUE

\* WaitingForNull: buffer[0] != 0 is the failure
FirstByteOk(byte) ==
    byte = 0

\* WaitingForNull: recvmsg into a buffer of one byte returns that byte
SRecvNull ==
    /\ s_ret = "running"
    /\ s_step = "WaitingForNull"
    /\ ~RecvWouldBlock(s_blocked, c2s)
    /\ c2s' = Drop(c2s, 1)
    /\ s_rcvd' = s_rcvd \o Take(c2s, 1)
    /\ IF FirstByteOk(c2s[1])
       THEN /\ s_step' = "WaitingForAuth"
            /\ UNCHANGED s_ret
       ELSE /\ s_ret' = "Handshake"
            /\ UNCHANGED s_step
    /\ UNCHANGED <<s_socket, s_buffer, s_server_guid, s_cap_unix_fd, s_client_uid,
                   s_out, s_poll, s_lines, s_sent, s_parsed>>
    /\ UNCHANGED <<cvars, s2c, gates, p_left, xvars>>

\* WaitingForNull: recvmsg returns WouldBlock, and so does advance_handshake
SRecvNullWouldBlock ==
    /\ s_ret = "running"
    /\ s_step = "WaitingForNull"
    /\ WouldBlockNow(RecvWouldBlock(s_blocked, c2s))
    /\ s_ret' = "WouldBlock"
    /\ UNCHANGED <<sfields, s_out, s_poll, shist>>
    /\ UNCHANGED <<cvars, chans, c_blocked, s_blocked, whole, p_left, xvars>>

\* read_command: one recvmsg that returns read bytes
SRecv ==
    /\ s_ret = "running"
    /\ s_step \in ServerWaiting
    /\ ~EndsWith(s_buffer, CRLF)
    /\ ~RecvWouldBlock(s_blocked, c2s)
    /\ \E read \in RecvSizes(RecvBufSize, c2s) :
          /\ s_buffer' = Extend(s_buffer, Take(c2s, read))
          /\ s_rcvd' = s_rcvd \o Take(c2s, read)
          /\ c2s' = Drop(c2s, read)
    /\ UNCHANGED <<s_socket, s_step, s_server_guid, s_cap_unix_fd, s_client_uid,
                   s_ret, s_out, s_poll, s_lines, s_sent, s_parsed>>
    /\ UNCHANGED <<cvars, s2c, gates, p_left, xvars>>

\* read_command: recvmsg returns WouldBlock, and so does advance_handshake
SRecvWouldBlock ==
    /\ s_ret = "running"
    /\ s_step \in ServerWaiting
    /\ ~EndsWith(s_buffer, CRLF)
    /\ WouldBlockNow(RecvWouldBlock(s_blocked, c2s))
    /\ s_ret' = "WouldBlock"
    /\ UNCHANGED <<sfields, s_out, s_poll, shist>>
    /\ UNCHANGED <<cvars, chans, c_blocked, s_blocked, whole, p_left, xvars>>

\* WaitingForAuth with a complete line in the buffer
SParseAuth ==
    /\ s_ret = "running"
    /\ s_step = "WaitingForAuth"
    /\ EndsWith(s_buffer, CRLF)
    /\ \E m \in {WaitingForAuthMatch(s_buffer, s_client_uid, s_server_guid)} :
           IF m.err # "none"
           THEN /\ s_ret' = m.err
                /\ UNCHANGED <<s_buffer, s_step, s_lines, s_parsed>>
           ELSE /\ s_buffer' = m.buffer
                /\ s_step' = m.step
                /\ s_lines' = Append(s_lines, m.buffer)
                /\ s_parsed' = Append(s_parsed, s_buffer)
                /\ UNCHANGED s_ret
    /\ UNCHANGED <<s_socket, s_server_guid, s_cap_unix_fd, s_client_uid, s_out,
                   s_poll, s_sent, s_rcvd>>
    /\ UNCHANGED <<cvars, chans, gates, p_left, xvars>>

\* WaitingForBegin with a complete line in the buffer
SParseBegin ==
    /\ s_ret = "running"
    /\ s_step = "WaitingForBegin"
    /\ EndsWith(s_buffer, CRLF)
    /\ \E m \in {WaitingForBeginMatch(s_buffer, s_cap_unix_fd)} :
           IF m.err # "none"
           THEN /\ s_ret' = m.err
                /\ UNCHANGED <<s_buffer, s_step, s_cap_unix_fd, s_lines, s_parsed>>
           ELSE /\ s_buffer' = m.buffer
                /\ s_step' = m.step
                /\ s_cap_unix_fd' = m.cap_unix_fd
                /\ s_lines' = IF m.reply THEN Append(s_lines, m.buffer) ELSE s_lines
                /\ s_parsed' = Append(s_parsed, s_buffer)
                /\ UNCHANGED s_ret
    /\ UNCHANGED <<s_socket, s_server_guid, s_client_uid, s_out, s_poll, s_sent,
                   s_rcvd>>
    /\ UNCHANGED <<cvars, chans, gates, p_left, xvars>>

\* flush_buffer: one sendmsg that accepts written bytes
SSend ==
    /\ s_ret = "running"
    /\ s_step \in ServerSending
    /\ s_buffer # <<>>
    /\ ~SendWouldBlock(s_blocked, s2c)
    /\ \E written \in SendSizes(s_buffer, s2c) :
          /\ s2c' = s2c \o Take(s_buffer, written)
          /\ s_sent' = s_sent \o Take(s_buffer, written)
          /\ s_buffer' = Drain(s_buffer, written)
    /\ UNCHANGED <<s_socket, s_step, s_server_guid, s_cap_unix_fd, s_client_uid,
                   s_ret, s_out, s_poll, s_lines, s_rcvd, s_parsed>>
    /\ UNCHANGED <<cvars, c2s, gates, p_left, xvars>>

\* flush_buffer: sendmsg returns WouldBlock, and so does advance_handshake
SSendWouldBlock ==
    /\ s_ret = "running"
    /\ s_step \in ServerSending
    /\ s_buffer # <<>>
    /\ WouldBlockNow(SendWouldBlock(s_blocked, s2c))
    /\ s_ret' = "WouldBlock"
    /\ UNCHANGED <<sfields, s_out, s_poll, shist>>
    /\ UNCHANGED <<cvars, chans, c_blocked, s_blocked, whole, p_left, xvars>>

\* the buffer is flushed: the Sending step is left
SFlushed ==
    /\ s_ret = "running"
    /\ s_step \in ServerSending
    /\ s_buffer = <<>>
    /\ s_step' = ServerAfterFlush(s_step)
    /\ UNCHANGED <<s_socket, s_buffer, s_server_guid, s_cap_unix_fd, s_client_uid,
                   s_ret, s_out, s_poll, shist>>
    /\ UNCHANGED <<cvars, chans, gates, p_left, xvars>>

\* Done => return Ok(())
SReturnOk ==
    /\ s_ret = "running"
    /\ s_step = "Done"
    /\ s_ret' = "Ok"
    /\ UNCHANGED <<sfields, s_out, s_poll, shist>>
    /\ UNCHANGED <<cvars, chans, gates, p_left, xvars>>

\* the statements of ServerHandshake::advance_handshake
ServerAdvance ==
    \/ SRecvNull
    \/ SRecvNullWouldBlock
    \/ SRecv
    \/ SRecvWouldBlock
    \/ SParseAuth
    \/ SParseBegin
    \/ SSend
    \/ SSendWouldBlock
    \/ SFlushed
    \/ SReturnOk

\* ServerHandshake::try_finish(self)
ServerTryFinish(socket, buffer, step, server_guid, cap_unix_fd, client_uid) ==
    IF step = "Done"
    THEN [tag |-> "Ok",
          val |-> [cx |-> socket, server_guid |-> server_guid,
                   cap_unix_fd |-> cap_unix_fd]]
    ELSE [tag |-> "Err",
          val |-> [socket |-> socket, buffer |-> buffer, step |-> step,
                   server_guid |-> server_guid, cap_unix_fd |-> cap_unix_fd,
                   client_uid |-> client_uid]]

\* the caller calls advance_handshake (again)
SCall ==
    /\ s_ret \notin {"running", "consumed"}
    /\ s_ret' = "running"
    /\ s_out' = NoOut
    /\ UNCHANGED <<sfields, s_poll, shist>>
    /\ UNCHANGED <<cvars, chans, gates, p_left, xvars>>

\* the caller calls try_finish: Err(self) hands the value back as it is,
\* Ok consumes it
STryFinish ==
    /\ s_ret \notin {"running", "consumed"}
    /\ s_out' = ServerTryFinish(s_socket, s_buffer, s_step, s_server_guid,
                                s_cap_unix_fd, s_client_uid)
    /\ s_ret' = IF s_out'.tag = "Err" THEN s_ret ELSE "consumed"
    /\ UNCHANGED <<sfields, s_poll, shist>>
    /\ UNCHANGED <<cvars, chans, gates, p_left, xvars>>

----------------------------------------------------------------------------
(* A client and a server, each driven by a caller of its own that calls    *)
(* advance_handshake and try_finish whenever it likes                      *)

Next ==
    \/ CCall
    \/ ClientAdvance
    \/ CTryFinish
    \/ SCall
    \/ ServerAdvance
    \/ STryFinish

Spec ==
    Init /\ [][Next]_vars

\* the callers keep calling advance_handshake, and a call in progress goes on
FairSpec ==
    /\ Spec
    /\ WF_vars(CCall \/ ClientAdvance)
    /\ WF_vars(SCall \/ ServerAdvance)

----------------------------------------------------------------------------
(* blocking_finish: the blocking driver of either machine *)

\* a mutant of ClientPollFlags: a pending write waits for readability
ClientPollFlagsReadOnly(step) ==
    CASE step \in ClientSending \cup ClientWaiting -> "POLLIN"
      [] OTHER -> "unreachable"

\* ClientHandshake::blocking_finish: let flags = match self.step
ClientPollFlags(step) ==
    CASE step \in ClientSending -> "POLLOUT"
      [] step \in ClientWaiting -> "POLLIN"
      [] OTHER -> "unreachable"

\* a mutant of ServerPollFlags: WaitingForNull is left to the unreachable arm
ServerPollFlagsNoNull(step) ==
    CASE step \in ServerSending -> "POLLOUT"
      [] step \in ServerWaiting -> "POLLIN"
      [] OTHER -> "unreachable"

\* ServerHandshake::blocking_finish: let flags = match self.step
ServerPollFlags(step) ==
    CASE step \in ServerSending -> "POLLOUT"
      [] step \in ServerWaiting \cup {"WaitingForNull"} -> "POLLIN"
      [] OTHER -> "unreachable"

\* wait_on(fd, flags) returns Ok: the socket is ready in that direction
PollReady(flags, blocked, outbound, inbound) ==
    /\ ~blocked
    /\ flags = "POLLOUT" => Len(outbound) < ChanCap
    /\ flags = "POLLIN" => inbound # <<>>

\* the errors of advance_handshake other than would-block
Failures ==
    {"Handshake", "Io", "InvalidGuid"}

\* the would-block arm: the flags are chosen from the step, wait_on begins
CBPoll ==
    /\ c_ret = "WouldBlock"
    /\ c_poll = "none"
    /\ IF ClientPollFlags(c_step) = "unreachable"
       THEN /\ c_out' = [tag |-> "panic", val |-> <<>>]
            /\ c_ret' = "consumed"
            /\ UNCHANGED c_poll
       ELSE /\ c_poll' = ClientPollFlags(c_step)
            /\ UNCHANGED <<c_out, c_ret>>
    /\ UNCHANGED <<cfields, c_uid, chist>>
    /\ UNCHANGED <<svars, chans, gates, p_left, xvars>>

\* wait_on returns Ok, the loop calls advance_handshake again
CBWake ==
    /\ c_poll # "none"
    /\ PollReady(c_poll, c_blocked, c2s, s2c)
    /\ c_poll' = "none"
    /\ c_ret' = "running"
    /\ UNCHANGED <<cfields, c_uid, c_out, chist>>
    /\ UNCHANGED <<svars, chans, gates, p_left, xvars>>

\* wait_on fails: blocking_finish returns that error
CBWaitFail ==
    /\ c_poll # "none"
    /\ c_out' = [tag |-> "Err", val |-> "WaitOn"]
    /\ c_poll' = "none"
    /\ c_ret' = "consumed"
    /\ UNCHANGED <<cfields, c_uid, chist>>
    /\ UNCHANGED <<svars, chans, gates, p_left, xvars>>

\* the arms that return: Ok(()) => try_finish, unreachable when it fails;
\* Err(e) => Err(e)
CBReturn ==
    /\ c_ret \in {"Ok"} \cup Failures
    /\ c_out' =
          IF c_ret # "Ok" THEN [tag |-> "Err", val |-> c_ret]
          ELSE IF ClientTryFinish(c_socket, c_buffer, c_step, c_server_guid,
                                  c_cap_unix_fd).tag = "Ok"
               THEN ClientTryFinish(c_socket, c_buffer, c_step, c_server_guid,
                                    c_cap_unix_fd)
               ELSE [tag |-> "panic", val |-> <<>>]
    /\ c_ret' = "consumed"
    /\ UNCHANGED <<cfields, c_uid, c_poll, chist>>
    /\ UNCHANGED <<svars, chans, gates, p_left, xvars>>

\* ClientHandshake::blocking_finish
ClientBlockingFinish ==
    \/ ClientAdvance
    \/ CBPoll
    \/ CBWake
    \/ CBReturn

\* the would-block arm: the flags are chosen from the step, wait_on begins
SBPoll ==
    /\ s_ret = "WouldBlock"
    /\ s_poll = "none"
    /\ IF ServerPollFlags(s_step) = "unreachable"
       THEN /\ s_out' = [tag |-> "panic", val |-> <<>>]
            /\ s_ret' = "consumed"
            /\ UNCHANGED s_poll
       ELSE /\ s_poll' = ServerPollFlags(s_step)
            /\ UNCHANGED <<s_out, s_ret>>
    /\ UNCHANGED <<sfields, shist>>
    /\ UNCHANGED <<cvars, chans, gates, p_left, xvars>>

\* wait_on returns Ok, the loop calls advance_handshake again
SBWake ==
    /\ s_poll # "none"
    /\ PollReady(s_poll, s_blocked, s2c, c2s)
    /\ s_poll' = "none"
    /\ s_ret' = "running"
    /\ UNCHANGED <<sfields, s_out, shist>>
    /\ UNCHANGED <<cvars, chans, gates, p_left, xvars>>

\* wait_on fails: blocking_finish returns that error
SBWaitFail ==
    /\ s_poll # "none"
    /\ s_out' = [tag |-> "Err", val |-> "WaitOn"]
    /\ s_poll' = "none"
    /\ s_ret' = "consumed"
    /\ UNCHANGED <<sfields, shist>>
    /\ UNCHANGED <<cvars, chans, gates, p_left, xvars>>

\* the arms that return: Ok(()) => try_finish, unreachable when it fails;
\* Err(e) => Err(e)
SBReturn ==
    /\ s_ret \in {"Ok"} \cup Failures
    /\ s_out' =
          IF s_ret # "Ok" THEN [tag |-> "Err", val |-> s_ret]
          ELSE IF ServerTryFinish(s_socket, s_buffer, s_step, s_server_guid,
                                  s_cap_unix_fd, s_client_uid).tag = "Ok"
               THEN ServerTryFinish(s_socket, s_buffer, s_step, s_server_guid,
                                    s_cap_unix_fd, s_client_uid)
               ELSE [tag |-> "panic", val |-> <<>>]
    /\ s_ret' = "consumed"
    /\ UNCHANGED <<sfields, s_poll, shist>>
    /\ UNCHANGED <<cvars, chans, gates, p_left, xvars>>

\* ServerHandshake::blocking_finish
ServerBlockingFinish ==
    \/ ServerAdvance
    \/ SBPoll
    \/ SBWake
    \/ SBReturn

\* both ends have entered blocking_finish; a socket may start out blocked
InitBlocking ==
    /\ ClientNew
    /\ \E uid \in ServerUids : ServerNew(GuidB, uid)
    /\ c_uid \in ClientUids
    /\ c_ret = "running" /\ s_ret = "running"
    /\ c_out = NoOut /\ s_out = NoOut
    /\ c_poll = "none" /\ s_poll = "none"
    /\ c2s = <<>> /\ s2c = <<>>
    /\ c_lines = <<>> /\ c_sent = <<>> /\ c_rcvd = <<>> /\ c_parsed = <<>>
    /\ s_lines = <<>> /\ s_sent = <<>> /\ s_rcvd = <<>> /\ s_parsed = <<>>
    /\ x_uid = <<0, 0>> /\ x_pc = "off" /\ x_enc = <<>>
    /\ x_dec = NotDecoded
    /\ c_blocked \in BOOLEAN /\ s_blocked \in BOOLEAN
    /\ wb = MaxWouldBlock
    /\ whole = FALSE
    /\ p_left = 0

NextBlocking ==
    \/ ClientBlockingFinish
    \/ CBWaitFail
    \/ ServerBlockingFinish
    \/ SBWaitFail
    \/ Unblock

\* each thread runs, wait_on returns once the socket is ready, and a
\* blocked socket is unblocked in the end; wait_on need not fail
SpecBlocking ==
    /\ InitBlocking
    /\ [][NextBlocking]_vars
    /\ WF_vars(ClientBlockingFinish)
    /\ WF_vars(ServerBlockingFinish)
    /\ WF_vars(Unblock)

----------------------------------------------------------------------------
(* A server against a scripted peer that writes whatever lines it likes,   *)
(* whole lines at a time, over sockets that transfer as much as they can   *)

\* "AUTH EXTERNAL "
AUTH_EXTERNAL ==
    Tail(AUTH_EXTERNAL_PREFIX)

\* "AUTH EXTERNAL <uid>\r\n" as a client of that uid composes it
AuthLineOf(uid) ==
    Tail(AuthLine(uid))

\* the uid the server of SpecServer expects
ExpectedUid ==
    U32(7)

\* a uid the server of SpecServer does not expect
OtherUid ==
    U32(8)

\* "AUTH EXTERNAL zz\r\n": the uid field is no string of hex digit pairs
L_AUTH_UNDECODABLE ==
    AUTH_EXTERNAL \o <<122, 122>> \o CRLF

\* "AUTH\r\n"
L_AUTH ==
    W_AUTH \o CRLF

\* "ERROR\r\n"
L_ERROR ==
    W_ERROR \o CRLF

\* "CANCEL\r\n"
L_CANCEL ==
    W_CANCEL \o CRLF

\* a line that is not UTF-8
L_NOT_UTF8 ==
    <<255>> \o CRLF

\* the lines the scripted peer chooses from
PeerLines ==
    {AuthLineOf(ExpectedUid), AuthLineOf(OtherUid), L_AUTH_UNDECODABLE,
     L_AUTH, L_ERROR, BEGIN_LINE, L_CANCEL, NEGOTIATE_UNIX_FD_LINE,
     L_NOT_UTF8}

\* what the peer has written before the server is first called: a NUL, a
\* byte that is no NUL, or such a byte and then a NUL
FirstWrites ==
    {<<0>>, <<1>>, <<1, 0>>}

\* the peer writes one more line of lines, when it fits into the socket
\* buffer
PeerWriteFrom(lines) ==
    /\ p_left > 0
    /\ p_left' = p_left - 1
    /\ \E line \in lines :
          /\ Len(c2s) + Len(line) <= ChanCap
          /\ c2s' = c2s \o line
          /\ c_lines' = Append(c_lines, line)
          /\ c_sent' = c_sent \o line
    /\ UNCHANGED <<cfields, c_uid, c_ret, c_out, c_poll, c_rcvd, c_parsed>>
    /\ UNCHANGED <<svars, s2c, gates, xvars>>

PeerWrite ==
    PeerWriteFrom(PeerLines)

\* the peer reads what the server has sent
PeerRead ==
    /\ s2c # <<>>
    /\ s2c' = <<>>
    /\ c_rcvd' = c_rcvd \o s2c
    /\ UNCHANGED <<cfields, c_uid, c_ret, c_out, c_poll, c_lines, c_sent, c_parsed>>
    /\ UNCHANGED <<svars, c2s, gates, p_left, xvars>>

\* a fresh server; the peer has written first and will write n lines
InitPeer(first, n) ==
    /\ ClientNew
    /\ ServerNew(GuidA, ExpectedUid)
    /\ c_uid \in ClientUids
    /\ c_ret = "new" /\ s_ret = "new"
    /\ c_out = NoOut /\ s_out = NoOut
    /\ c_poll = "none" /\ s_poll = "none"
    /\ c2s = first
    /\ c_lines = [i \in 1..Len(first) |-> <<first[i]>>]
    /\ c_sent = first
    /\ s2c = <<>>
    /\ c_rcvd = <<>> /\ c_parsed = <<>>
    /\ s_lines = <<>> /\ s_sent = <<>> /\ s_rcvd = <<>> /\ s_parsed = <<>>
    /\ x_uid = <<0, 0>> /\ x_pc = "off" /\ x_enc = <<>>
    /\ x_dec = NotDecoded
    /\ c_blocked = FALSE /\ s_blocked = FALSE
    /\ wb = 0
    /\ whole = TRUE
    /\ p_left = n

InitServer ==
    \E first \in FirstWrites : InitPeer(first, MaxPeerLines)

NextServer ==
    \/ SCall
    \/ ServerAdvance
    \/ STryFinish
    \/ PeerWrite
    \/ PeerRead

SpecServer ==
    InitServer /\ [][NextServer]_vars

----------------------------------------------------------------------------
(* Properties of the pair *)

\* the lines of the client as the server reads them: without the leading NUL
WithoutNul(lines) ==
    IF lines = <<>> THEN <<>> ELSE <<Tail(lines[1])>> \o Tail(lines)

BothDone ==
    c_step = "Done" /\ s_step = "Done"

\* what the two ends negotiated is the same
Agree ==
    /\ BothDone =>
          /\ c_server_guid = Some(s_server_guid)
          /\ c_cap_unix_fd = s_cap_unix_fd
    /\ (c_out.tag = "Ok" /\ s_out.tag = "Ok") =>
          /\ c_out.val.server_guid = s_out.val.server_guid
          /\ c_out.val.server_guid = s_server_guid
          /\ c_out.val.cap_unix_fd = s_out.val.cap_unix_fd

\* C1: a fresh client and a fresh server that expects the client's uid, on
\* a socket pair, under any interleaving, any sizes of partial writes and
\* reads and finitely many would-block results, both end in Done, and what
\* try_finish returns on the two sides agrees on the guid and on the
\* fd-passing flag.
C1_PairCompletes ==
    /\ (c_uid = s_client_uid) => <>[]BothDone
    /\ []Agree

\* C1 witness: both try_finish have returned Ok after a would-block of a
\* ready socket
C1_Witness ==
    /\ c_out.tag = "Ok"
    /\ s_out.tag = "Ok"
    /\ wb = 0

\* C2: the bytes the socket accepted are a prefix of the lines composed so
\* far, in a Sending step the buffer is exactly what is still to be sent,
\* outside a Sending step everything composed has been sent, and the bytes
\* on the wire are the accepted ones, each once.
C2_SentExactlyOnce ==
    /\ IsPrefix(c_sent, Flatten(c_lines))
    /\ IsPrefix(s_sent, Flatten(s_lines))
    /\ c_sent \o (IF c_step \in ClientSending THEN c_buffer ELSE <<>>)
          = Flatten(c_lines)
    /\ s_sent \o (IF s_step \in ServerSending THEN s_buffer ELSE <<>>)
          = Flatten(s_lines)
    /\ c_sent = s_rcvd \o c2s
    /\ s_sent = c_rcvd \o s2c

\* C2 witness: the server has returned would-block with a part of its OK
\* line accepted by the socket and the rest still in the buffer
C2_Witness ==
    /\ s_ret = "WouldBlock"
    /\ s_step = "SendingAuthOK"
    /\ s_buffer # <<>>
    /\ Len(s_buffer) < Len(OkLine(s_server_guid))

\* the inbound bytes are all there, in the order of their arrival
InboundKept ==
    /\ c_rcvd = Flatten(c_parsed)
                   \o (IF c_step \in ClientWaiting THEN c_buffer ELSE <<>>)
    /\ s_rcvd = (IF s_step = "WaitingForNull" THEN <<>> ELSE <<0>>)
                   \o Flatten(s_parsed)
                   \o (IF s_step \in ServerWaiting THEN s_buffer ELSE <<>>)
    /\ IsPrefix(c_parsed, s_lines)
    /\ IsPrefix(s_parsed, WithoutNul(c_lines))

\* a return of would-block leaves the step and the buffer as they are
WouldBlockFrame ==
    /\ (c_ret = "running" /\ c_ret' = "WouldBlock") =>
          /\ c_step' = c_step
          /\ c_buffer' = c_buffer
          /\ c_step \in ClientSending \cup ClientWaiting
    /\ (s_ret = "running" /\ s_ret' = "WouldBlock") =>
          /\ s_step' = s_step
          /\ s_buffer' = s_buffer
          /\ s_step \in ServerSending \cup ServerWaiting \cup {"WaitingForNull"}

\* C3: when advance_handshake returns would-block the step is the one
\* whose I/O is pending and the buffer is untouched; the bytes received in
\* earlier attempts of a Wait step stay in the buffer in their order, and
\* every line parsed is the line the peer composed.
C3_ResumeKeepsBytes ==
    /\ []InboundKept
    /\ [][WouldBlockFrame]_vars

\* C3 witness: the client has returned would-block in a Wait step with a
\* part of the line already in its buffer
C3_Witness ==
    /\ c_ret = "WouldBlock"
    /\ c_step = "WaitOauth"
    /\ c_buffer # <<>>
    /\ ~EndsWith(c_buffer, CRLF)

\* try_finish of the client has just returned
ClientTried ==
    c_out' # c_out /\ c_out'.tag # "none"

\* try_finish of the server has just returned
ServerTried ==
    s_out' # s_out /\ s_out'.tag # "none"

\* C5: try_finish in a step other than Done returns the value it was given,
\* with step, buffer, guid, fd flag and socket unchanged; in Done it returns
\* the result with the same socket, the negotiated guid and fd flag; a
\* result comes from the Done step only.
C5_TryFinish ==
    [][ /\ ClientTried =>
             /\ c_out'.tag \in {"Err", "Ok"}
             /\ c_out'.tag = "Err" =>
                   /\ c_step # "Done"
                   /\ cfields' = cfields
                   /\ c_out'.val = [socket |-> c_socket, buffer |-> c_buffer,
                                    step |-> c_step,
                                    server_guid |-> c_server_guid,
                                    cap_unix_fd |-> c_cap_unix_fd]
             /\ c_out'.tag = "Ok" =>
                   /\ c_step = "Done"
                   /\ c_out'.val = [cx |-> c_socket,
                                    server_guid |-> c_server_guid[1],
                                    cap_unix_fd |-> c_cap_unix_fd]
        /\ ServerTried =>
             /\ s_out'.tag \in {"Err", "Ok"}
             /\ s_out'.tag = "Err" =>
                   /\ s_step # "Done"
                   /\ sfields' = sfields
                   /\ s_out'.val = [socket |-> s_socket, buffer |-> s_buffer,
                                    step |-> s_step,
                                    server_guid |-> s_server_guid,
                                    cap_unix_fd |-> s_cap_unix_fd,
                                    client_uid |-> s_client_uid]
             /\ s_out'.tag = "Ok" =>
                   /\ s_step = "Done"
                   /\ s_out'.val = [cx |-> s_socket,
                                    server_guid |-> s_server_guid,
                                    cap_unix_fd |-> s_cap_unix_fd]
      ]_vars

\* C5 witness: try_finish has handed back a client that is in the middle of
\* sending, and the caller still holds it
C5_Witness ==
    /\ c_out.tag = "Err"
    /\ c_out.val.step = "SendingNegociateFd"
    /\ c_out.val.buffer # <<>>
    /\ c_ret = "WouldBlock"

----------------------------------------------------------------------------
(* Properties of the blocking driver *)

\* a readiness wait has failed
WaitFailed ==
    \/ c_out = [tag |-> "Err", val |-> "WaitOn"]
    \/ s_out = [tag |-> "Err", val |-> "WaitOn"]

\* both blocking_finish have returned the initialized result
BothInitialized ==
    /\ c_out.tag = "Ok"
    /\ s_out.tag = "Ok"

\* C4: blocking_finish on a socket that answers would-block until it is
\* unblocked, against a peer that follows the protocol, returns the
\* initialized result once the socket is unblocked, unless a readiness wait
\* fails; this holds for the client and for the server.
C4_BlockingFinishes ==
    (c_uid = s_client_uid) => <>(BothInitialized \/ WaitFailed)

\* C4 witness: both drivers have returned the initialized result although a
\* ready socket answered would-block on the way
C4_Witness ==
    /\ BothInitialized
    /\ c_ret = "consumed"
    /\ s_ret = "consumed"
    /\ ~c_blocked /\ ~s_blocked
    /\ wb = 0

----------------------------------------------------------------------------
(* Properties of the server against the scripted peer *)

\* this step is the match on a complete line: it changes the step or fails
ServerParses ==
    /\ s_ret = "running"
    /\ EndsWith(s_buffer, CRLF)
    /\ s_step' # s_step \/ s_ret' # s_ret

\* this step is the WaitingForAuth match on "AUTH EXTERNAL <uid>\r\n"
AuthAttempt(uid) ==
    /\ s_step = "WaitingForAuth"
    /\ IsPrefix(AuthLineOf(uid), s_buffer)
    /\ ServerParses

\* an attempt with another uid composes exactly one REJECTED line
RejectsOther ==
    AuthAttempt(OtherUid) =>
        /\ s_ret' = "running"
        /\ s_step' = "SendingAuthError"
        /\ s_buffer' = REJECTED_LINE
        /\ s_lines' = Append(s_lines, REJECTED_LINE)

\* once the rejection is flushed, all of it sent, the server is back in
\* WaitingForAuth
BackToWaitingForAuth ==
    (s_step = "SendingAuthError" /\ s_step' # s_step) =>
        /\ s_step' = "WaitingForAuth"
        /\ s_buffer' = <<>>
        /\ s_sent' = Flatten(s_lines')

\* an attempt with the expected uid composes the OK line, whatever came before
AcceptsExpected ==
    AuthAttempt(ExpectedUid) =>
        /\ s_ret' = "running"
        /\ s_step' = "SendingAuthOK"
        /\ s_buffer' = OkLine(s_server_guid)
        /\ s_lines' = Append(s_lines, OkLine(s_server_guid))

\* once the OK line is flushed the server waits for BEGIN
OkToWaitingForBegin ==
    (s_step = "SendingAuthOK" /\ s_step' # s_step) =>
        /\ s_step' = "WaitingForBegin"
        /\ s_sent' = Flatten(s_lines')

\* C6: an AUTH EXTERNAL line whose decoded uid differs from the expected one
\* makes the server emit exactly one REJECTED line and return to
\* WaitingForAuth, and an AUTH EXTERNAL line with the expected uid is then
\* answered with OK and leads to WaitingForBegin, after any number of
\* rejected attempts.
C6_RejectThenAccept ==
    [][/\ RejectsOther
       /\ BackToWaitingForAuth
       /\ AcceptsExpected
       /\ OkToWaitingForBegin]_vars

\* two attempts were rejected and the third was answered with OK
C6_Witness ==
    /\ s_step = "WaitingForBegin"
    /\ s_parsed = <<AuthLineOf(OtherUid), AuthLineOf(OtherUid),
                    AuthLineOf(ExpectedUid)>>
    /\ s_sent = REJECTED_LINE \o REJECTED_LINE \o OkLine(s_server_guid)

\* C7: in WaitingForAuth the only complete line that makes advance_handshake
\* fail with a protocol violation is the bare BEGIN; every other complete
\* line, one whose uid field cannot be decoded included, is answered with a
\* reply line.
C7_OnlyBeginFatal ==
    [][(s_step = "WaitingForAuth" /\ ServerParses /\ s_ret' = "Handshake")
          => IsPrefix(BEGIN_LINE, s_buffer)]_vars

\* C8: when the first byte the server receives is not zero,
\* advance_handshake returns the protocol-violation error and the server
\* does not leave WaitingForNull.
C8_FirstByteMustBeNul ==
    [][(s_ret = "running" /\ s_rcvd = <<>> /\ s_rcvd' # <<>> /\ s_rcvd'[1] # 0)
          => /\ s_ret' = "Handshake"
             /\ s_step = "WaitingForNull"
             /\ s_step' = "WaitingForNull"]_vars

\* the server has read a first byte of 1 and returned the error
C8_Witness ==
    /\ s_rcvd = <<1>>
    /\ s_ret = "Handshake"
    /\ s_step = "WaitingForNull"

\* the peer has never written NEGOTIATE_UNIX_FD
NeverNegotiated ==
    \A i \in 1..Len(c_lines) : c_lines[i] # NEGOTIATE_UNIX_FD_LINE

\* this step is the WaitingForBegin match on BEGIN that directly follows the
\* OK reply
BeginAfterOk ==
    /\ s_step = "WaitingForBegin"
    /\ IsPrefix(BEGIN_LINE, s_buffer)
    /\ s_lines # <<>>
    /\ s_lines[Len(s_lines)] = OkLine(s_server_guid)
    /\ ServerParses

\* C9: when the peer never sends NEGOTIATE_UNIX_FD and the server receives
\* a bare BEGIN directly after OK, the server reaches Done, and the
\* fd-passing flag is false in the server and in what try_finish returns.
C9_BeginWithoutNegotiate ==
    /\ [][(NeverNegotiated /\ BeginAfterOk)
             => /\ s_step' = "Done"
                /\ s_ret' = "running"
                /\ s_cap_unix_fd' = FALSE]_vars
    /\ [](NeverNegotiated =>
             /\ s_step = "Done" => s_cap_unix_fd = FALSE
             /\ s_out.tag = "Ok" => s_out.val.cap_unix_fd = FALSE)

\* try_finish has returned the result of AUTH, OK, BEGIN
C9_Witness ==
    /\ s_out.tag = "Ok"
    /\ s_out.val.cap_unix_fd = FALSE
    /\ s_parsed = <<AuthLineOf(ExpectedUid), BEGIN_LINE>>
    /\ NeverNegotiated

----------------------------------------------------------------------------
(* The uid on the wire: what the client's Init step writes, read back by   *)
(* the server's WaitingForAuth match                                       *)

\* the uids below 2^32 around the limb and the decimal-length boundaries
EdgeUids ==
    {<<0, 65535>>, <<1, 0>>, <<1, 34464>>, <<152, 38527>>, <<152, 38528>>,
     <<15258, 51711>>, <<15258, 51712>>, <<32767, 65535>>, <<32768, 0>>,
     <<65535, 65534>>, <<65535, 65535>>}

\* the uids the codec is run on
CodecUids ==
    {U32(n) : n \in 0..MaxCodecUid} \union EdgeUids

\* the client's Init step composes the AUTH EXTERNAL line for its uid
XEncode ==
    /\ x_pc = "start"
    /\ x_enc' = AuthLine(x_uid)
    /\ x_pc' = "encoded"
    /\ UNCHANGED <<x_uid, x_dec>>
    /\ UNCHANGED <<cvars, svars, chans, gates, p_left>>

\* a server expecting the same uid decodes the uid word of that line and
\* matches the line
XDecode ==
    /\ x_pc = "encoded"
    /\ \E m \in {WaitingForAuthMatch(Tail(x_enc), x_uid, GuidA)} :
          x_dec' = [uid |-> IdFromStr(SplitWhitespace(Tail(x_enc))[3]),
                    err |-> m.err, step |-> m.step]
    /\ x_pc' = "decoded"
    /\ UNCHANGED <<x_uid, x_enc>>
    /\ UNCHANGED <<cvars, svars, chans, gates, p_left>>

InitCodec ==
    /\ ClientNew
    /\ ServerNew(GuidA, ExpectedUid)
    /\ c_uid \in ClientUids
    /\ c_ret = "new" /\ s_ret = "new"
    /\ c_out = NoOut /\ s_out = NoOut
    /\ c_poll = "none" /\ s_poll = "none"
    /\ c2s = <<>> /\ s2c = <<>>
    /\ c_lines = <<>> /\ c_sent = <<>> /\ c_rcvd = <<>> /\ c_parsed = <<>>
    /\ s_lines = <<>> /\ s_sent = <<>> /\ s_rcvd = <<>> /\ s_parsed = <<>>
    /\ c_blocked = FALSE /\ s_blocked = FALSE
    /\ wb = 0
    /\ whole = TRUE
    /\ p_left = 0
    /\ x_uid \in CodecUids
    /\ x_pc = "start"
    /\ x_enc = <<>>
    /\ x_dec = NotDecoded

NextCodec ==
    \/ XEncode
    \/ XDecode

SpecCodec ==
    InitCodec /\ [][NextCodec]_vars

\* C10: decoding the client's hex-of-decimal encoding of a uid gives that
\* uid back, for every uid below 2^32, so a server expecting the client's
\* uid takes the OK branch on the client's AUTH EXTERNAL line.
C10_UidRoundTrip ==
    x_pc = "decoded" =>
        /\ x_dec.uid = [ok |-> TRUE, id |-> x_uid]
        /\ x_dec.err = "none"
        /\ x_dec.step = "SendingAuthOK"

\* the largest uid has been encoded and decoded
C10_Witness ==
    /\ x_pc = "decoded"
    /\ x_uid = <<65535, 65535>>
    /\ x_dec.uid.ok
    /\ Len(x_enc) = Len(AUTH_EXTERNAL_PREFIX) + 20 + 2

----------------------------------------------------------------------------
(* After a protocol violation *)

\* the server has returned a protocol violation: its first byte was no NUL,
\* or the violation is what the call has just returned, or the line in its
\* buffer is the one the WaitingForAuth match fails on
ServerViolated ==
    \/ s_rcvd # <<>> /\ s_rcvd[1] # 0
    \/ s_ret = "Handshake"
    \/ /\ s_step = "WaitingForAuth"
       /\ EndsWith(s_buffer, CRLF)
       /\ WaitingForAuthMatch(s_buffer, s_client_uid, s_server_guid).err
             = "Handshake"

\* the client has returned a protocol violation: the call has just returned
\* it, or the line in its buffer is the one the match fails on
ClientViolated ==
    \/ c_ret = "Handshake"
    \/ /\ c_step = "WaitOauth"
       /\ EndsWith(c_buffer, CRLF)
       /\ WaitOauthMatch(c_buffer).err = "Handshake"
    \/ /\ c_step = "WaitNegociateFd"
       /\ EndsWith(c_buffer, CRLF)
       /\ WaitNegociateFdMatch(c_buffer).err = "Handshake"

\* C11: once advance_handshake of either machine has returned a protocol
\* violation, no later step of that machine changes its step, whatever the
\* peer writes: it moves to no later step and does not reach Done.
C11_ViolationIsFatal ==
    [][/\ ServerViolated => s_step' = s_step
       /\ ClientViolated => c_step' = c_step]_vars

----------------------------------------------------------------------------
(* What a completed read_command holds *)

\* the buffer is one line: its first \n is its last byte
OneLine(buffer) ==
    /\ EndsWith(buffer, CRLF)
    /\ LineEnd(buffer, 1) = Len(buffer)

\* read_command of the client has completed
ClientReadDone ==
    /\ c_ret = "running"
    /\ c_step \in ClientWaiting
    /\ EndsWith(c_buffer, CRLF)

\* read_command of the server has completed
ServerReadDone ==
    /\ s_ret = "running"
    /\ s_step \in {"WaitingForAuth", "WaitingForBegin"}
    /\ EndsWith(s_buffer, CRLF)

\* C12: whenever read_command completes, the buffer holds exactly one
\* complete CRLF-terminated line and nothing else, whatever the peer wrote
\* and however it arrived, and the server in Done has taken no byte from
\* the socket beyond the CRLF of the BEGIN line.
C12_OneLinePerRead ==
    /\ ClientReadDone => OneLine(c_buffer)
    /\ ServerReadDone => OneLine(s_buffer)
    /\ s_step = "Done" => EndsWith(s_rcvd, BEGIN_LINE)

----------------------------------------------------------------------------
(* Authentication of the server that reaches Done *)

\* the words of the line the server matched in its i-th parse
ParsedWords(i) ==
    SplitWhitespace(ReadLine(s_parsed[i]).reply)

\* the i-th parse matched AUTH EXTERNAL with a uid that decodes to the
\* expected one, and was answered with OK
AcceptedAt(i) ==
    /\ s_lines[i] = OkLine(s_server_guid)
    /\ Len(ParsedWords(i)) = 3
    /\ ParsedWords(i)[1] = W_AUTH
    /\ ParsedWords(i)[2] = W_EXTERNAL
    /\ IdFromStr(ParsedWords(i)[3]) = [ok |-> TRUE, id |-> s_client_uid]

\* the i-th parse neither matched CANCEL or ERROR nor was answered with a
\* rejection
KeptAt(i) ==
    /\ ParsedWords(i) # <<>>
    /\ ParsedWords(i)[1] \notin {W_CANCEL, W_ERROR}
    /\ s_lines[i] \in {AGREE_LINE, UNSUPPORTED_LINE}

----------------------------------------------------------------------------
(* The fd-passing flag across sessions: a server against a peer that       *)
(* authenticates, negotiates, cancels and begins, in any order             *)

\* how many lines the peer of SpecServerFd writes
MaxFdLines ==
    5

\* the lines the peer of SpecServerFd chooses from
FdLines ==
    {AuthLineOf(ExpectedUid), NEGOTIATE_UNIX_FD_LINE, L_CANCEL, BEGIN_LINE}

PeerWriteFd ==
    PeerWriteFrom(FdLines)

InitServerFd ==
    \E first \in {<<0>>, <<1>>} : InitPeer(first, MaxFdLines)

NextServerFd ==
    \/ SCall
    \/ ServerAdvance
    \/ STryFinish
    \/ PeerWriteFd
    \/ PeerRead

SpecServerFd ==
    InitServerFd /\ [][NextServerFd]_vars

\* the i-th parse is the most recent accepted AUTH and a later parse matched
\* NEGOTIATE_UNIX_FD
NegotiatedSince(i) ==
    /\ AcceptedAt(i)
    /\ \A j \in (i + 1)..Len(s_lines) : ~AcceptedAt(j)
    /\ \E j \in (i + 1)..Len(s_lines) :
          ParsedWords(j) = <<W_NEGOTIATE_UNIX_FD>>

\* C14: when the server is in Done, its fd-passing flag, and the flag in
\* what try_finish returned, is true only if NEGOTIATE_UNIX_FD was matched
\* after the most recent accepted AUTH.
C14_FlagOfLastSession ==
    (s_step = "Done" /\ (s_cap_unix_fd \/ (s_out.tag = "Ok" /\ s_out.val.cap_unix_fd)))
        => \E i \in 1..Len(s_lines) : NegotiatedSince(i)

----------------------------------------------------------------------------
(* The order of the client's steps *)

\* the place of a client step in the order of the enum
ClientRank(step) ==
    CASE step = "Init" -> 0
      [] step = "SendingOauth" -> 1
      [] step = "WaitOauth" -> 2
      [] step = "SendingNegociateFd" -> 3
      [] step = "WaitNegociateFd" -> 4
      [] step = "SendingBegin" -> 5
      [] step = "Done" -> 6

\* C15: the client's step only ever moves to the next step of the order
\* Init, SendingOauth, WaitOauth, SendingNegociateFd, WaitNegociateFd,
\* SendingBegin, Done; and in Done advance_handshake returns Ok, changes no
\* field, sends nothing and receives nothing.
C15_ClientStraightLine ==
    [][/\ c_step' # c_step => ClientRank(c_step') = ClientRank(c_step) + 1
       /\ c_step = "Done" =>
             /\ UNCHANGED <<cfields, chist>>
             /\ (c_ret = "running" /\ c_ret' # c_ret) => c_ret' = "Ok"]_vars

\* advance_handshake has returned Ok in Done while the server is not there
C15_Witness ==
    /\ c_step = "Done"
    /\ c_ret = "Ok"
    /\ c_lines = <<AuthLine(c_uid), NEGOTIATE_UNIX_FD_LINE, BEGIN_LINE>>
    /\ s_step # "Done"

----------------------------------------------------------------------------
(* Client and server of different uids *)

\* neither side gets past the authentication: the client has composed its
\* AUTH line at most, the server has composed rejections only
StuckInAuth ==
    /\ c_step \in {"Init", "SendingOauth", "WaitOauth"}
    /\ s_step \in {"WaitingForNull", "WaitingForAuth", "SendingAuthError"}
    /\ c_lines \in {<<>>, <<AuthLine(c_uid)>>}
    /\ s_lines \in {<<>>, <<REJECTED_LINE>>}
    /\ c_ret # "Ok" /\ s_ret # "Ok"
    /\ c_out.tag # "Ok" /\ s_out.tag # "Ok"

\* the client's match on the server's reply ends the call with the protocol
\* violation
ReplyIsViolation ==
    (c_step = "WaitOauth" /\ c_ret = "running" /\ EndsWith(c_buffer, CRLF)
     /\ c_ret' # c_ret)
        => /\ c_buffer = REJECTED_LINE
           /\ c_ret' = "Handshake"
           /\ UNCHANGED <<cfields, chist>>

\* C16: when the client's uid differs from the uid the server expects, the
\* server answers REJECTED EXTERNAL and stays in WaitingForAuth or
\* SendingAuthError, the client's match on that reply returns the protocol
\* violation, the client sends neither NEGOTIATE_UNIX_FD nor BEGIN, and
\* neither side reaches Done.
C16_MismatchNeverDone ==
    /\ [](c_uid # s_client_uid => StuckInAuth)
    /\ [][c_uid # s_client_uid => ReplyIsViolation]_vars

\* the server has rejected and waits again, the client has failed
C16_Witness ==
    /\ c_uid # s_client_uid
    /\ c_ret = "Handshake"
    /\ c_step = "WaitOauth"
    /\ s_step = "WaitingForAuth"
    /\ s_sent = REJECTED_LINE
    /\ s_ret = "WouldBlock"

----------------------------------------------------------------------------
(* The arms of blocking_finish *)

\* would-block is returned in a Sending or a reading step only, and the
\* wait is for writability in the first and for readability in the second
ClientWaitsRight ==
    /\ c_ret = "WouldBlock" => c_step \in ClientSending \cup ClientWaiting
    /\ c_poll # "none" =>
          /\ c_poll = "POLLOUT" <=> c_step \in ClientSending
          /\ c_poll = "POLLIN" <=> c_step \in ClientWaiting

ServerWaitsRight ==
    /\ s_ret = "WouldBlock" =>
          s_step \in ServerSending \cup ServerWaiting \cup {"WaitingForNull"}
    /\ s_poll # "none" =>
          /\ s_poll = "POLLOUT" <=> s_step \in ServerSending
          /\ s_poll = "POLLIN" <=> s_step \in ServerWaiting \cup {"WaitingForNull"}

\* C17: in blocking_finish, when advance_handshake returns would-block the
\* step is a Sending step or a reading step, never Init or Done, and the
\* wait is for writability exactly in Sending steps and for readability
\* exactly in reading steps; when it returns Ok the step is Done; and no
\* unreachable arm is taken.
C17_DriverArms ==
    /\ ClientWaitsRight
    /\ ServerWaitsRight
    /\ c_ret = "Ok" => c_step = "Done"
    /\ s_ret = "Ok" => s_step = "Done"
    /\ c_out.tag # "panic"
    /\ s_out.tag # "panic"

\* the client waits for writability while the server waits for its first
\* byte
C17_Witness ==
    /\ c_poll = "POLLOUT"
    /\ s_poll = "POLLIN"
    /\ s_step = "WaitingForNull"

----------------------------------------------------------------------------
(* The loop of WaitingForBegin *)

\* the words of the line at the front of the server's buffer
BufferWords ==
    SplitWhitespace(ReadLine(s_buffer).reply)

\* the line at the front of the server's buffer is text that WaitingForBegin
\* does not recognize
Unrecognized ==
    /\ ReadLine(s_buffer).ok
    /\ BufferWords # <<W_BEGIN>>
    /\ BufferWords # <<W_CANCEL>>
    /\ BufferWords # <<W_NEGOTIATE_UNIX_FD>>
    /\ BufferWords = <<>> \/ BufferWords[1] # W_ERROR

\* the server composes line as its only reply and will flush it before it
\* waits for BEGIN again
RepliesInBegin(line) ==
    /\ s_ret' = "running"
    /\ s_step' = "SendingBeginMessage"
    /\ s_buffer' = line
    /\ s_lines' = Append(s_lines, line)

\* the match on a complete line in WaitingForBegin
BeginLoopMatch ==
    (s_step = "WaitingForBegin" /\ ServerParses) =>
        /\ BufferWords = <<W_BEGIN>> =>
              /\ s_step' = "Done"
              /\ s_ret' = "running"
              /\ UNCHANGED <<s_lines, s_sent, s_buffer>>
        /\ BufferWords = <<W_NEGOTIATE_UNIX_FD>> => RepliesInBegin(AGREE_LINE)
        /\ Unrecognized => RepliesInBegin(UNSUPPORTED_LINE)

\* the reply is flushed whole and the server waits for BEGIN again
BeginLoopBack ==
    (s_step = "SendingBeginMessage" /\ s_step' # s_step) =>
        /\ s_step' = "WaitingForBegin"
        /\ s_buffer' = <<>>
        /\ s_sent' = Flatten(s_lines')

----------------------------------------------------------------------------
(* The role of the buffer *)

\* the lines a client composes
ClientLines ==
    {AuthLine(c_uid), NEGOTIATE_UNIX_FD_LINE, BEGIN_LINE}

\* the lines a server composes
ServerLines ==
    {OkLine(s_server_guid), REJECTED_LINE, UNSUPPORTED_LINE, AGREE_LINE}

\* the bytes the server reads one by one in WaitingForNull: those up to the
\* first NUL
RECURSIVE NulReads(_, _)
NulReads(rcvd, i) ==
    IF i > Len(rcvd) THEN rcvd
    ELSE IF rcvd[i] = 0 THEN Take(rcvd, i)
    ELSE NulReads(rcvd, i + 1)

\* in a Sending step the buffer is what is left of the one line composed on
\* entry; in a reading step it is what was received since entry
ClientBufferRole ==
    /\ c_step = "Init" => c_buffer = <<>>
    /\ c_step \in ClientSending =>
          /\ c_lines # <<>>
          /\ c_lines[Len(c_lines)] \in ClientLines
          /\ EndsWith(c_lines[Len(c_lines)], c_buffer)
    /\ c_step \in ClientWaiting =>
          c_rcvd = Flatten(c_parsed) \o c_buffer

ServerBufferRole ==
    /\ s_step = "WaitingForNull" => s_buffer = <<>>
    /\ s_step \in ServerSending =>
          /\ s_lines # <<>>
          /\ s_lines[Len(s_lines)] \in ServerLines
          /\ EndsWith(s_lines[Len(s_lines)], s_buffer)
    /\ s_step \in ServerWaiting =>
          s_rcvd = NulReads(s_rcvd, 1) \o Flatten(s_parsed) \o s_buffer

\* every reading step is entered with an empty buffer
EntersEmpty ==
    /\ (c_step' # c_step /\ c_step' \in ClientWaiting) => c_buffer' = <<>>
    /\ (s_step' # s_step /\ s_step' \in ServerWaiting) => s_buffer' = <<>>

\* C19: in every reachable state of either machine, in a Sending step the
\* buffer is a suffix of the one outbound line composed on entry to the
\* step, and in a reading step the buffer holds exactly the bytes received
\* from the socket during that step: it is empty on entry, and no outbound
\* byte and no byte of an earlier line is left in it.
C19_BufferRole ==
    /\ [](ClientBufferRole /\ ServerBufferRole)
    /\ [][EntersEmpty]_vars

\* both machines are in the middle of a reading step and of a Sending step
C19_Witness ==
    /\ c_step = "WaitNegociateFd"
    /\ c_buffer # <<>>
    /\ ~EndsWith(c_buffer, CRLF)
    /\ s_step = "SendingBeginMessage"
    /\ s_buffer # <<>>
    /\ s_buffer # AGREE_LINE

----------------------------------------------------------------------------
(* The client's server_guid *)

\* the client steps before the OK reply has been matched
BeforeOk ==
    {"Init", "SendingOauth", "WaitOauth"}

\* server_guid is None exactly before the OK reply has been matched, and
\* try_finish never finds it None in Done
GuidWhenExpected ==
    /\ c_server_guid = None <=> c_step \in BeforeOk
    /\ c_server_guid # None => c_server_guid \in {Some(g) : g \in Guids}
    /\ c_out.tag # "panic"
    /\ c_out.tag = "Ok" => c_server_guid = Some(c_out.val.server_guid)

\* server_guid is assigned by the step that leaves WaitOauth and by no other
GuidSetOnce ==
    /\ c_server_guid # None => c_server_guid' = c_server_guid
    /\ c_server_guid' # c_server_guid =>
          /\ c_step = "WaitOauth"
          /\ c_step' = "SendingNegociateFd"

\* C20: the client's server_guid is absent in Init, SendingOauth and
\* WaitOauth and present in SendingNegociateFd, WaitNegociateFd,
\* SendingBegin and Done; it is set once and never changed afterwards, so
\* the unwrap in try_finish at Done does not fail.
C20_GuidPresence ==
    /\ []GuidWhenExpected
    /\ [][GuidSetOnce]_vars

\* try_finish has unwrapped the guid of the second server
C20_Witness ==
    /\ c_out.tag = "Ok"
    /\ c_out.val.server_guid = GuidB
    /\ c_server_guid = Some(GuidB)
    /\ s_server_guid = GuidB

====
